---- MODULE Spec2Model ----
(***************************************************************************)
(* Model of lenskit.sharing: the sharing-mode flag, the activation stack   *)
(* of model stores, store selection, the no-op store and the               *)
(* shared-memory store/client (lenskit/sharing/__init__.py and             *)
(* lenskit/sharing/sharedmem.py), and of the root seed of                  *)
(* lenskit/util/random.py.                                                 *)
(*                                                                         *)
(* One thread of control (one threading.local context) drives the stores;  *)
(* every action is one whole call of a function or method of the source.   *)
(***************************************************************************)
EXTENDS Integers, Sequences, FiniteSets, TLC

VARIABLES
    enabled,      \* SHMModelStore.ENABLED: shm is not None
    mode,         \* _store_state.mode, read through _save_mode()
    scopes,       \* the `old` local of every open sharing_mode() generator, innermost last
    active,       \* _store_state.active: the stack of entered stores
    created,      \* store objects that have been constructed
    act_count,    \* BaseModelStore._act_count, per store
    has_buffers,  \* whether the store object has the attribute `buffers`
    buffers,      \* SHMModelStore.buffers: <<id, blocks>> items in insertion order
    segs,         \* the OS's shared-memory segments, by name
    keys,         \* the SHMKeys put_model has returned, by id
    last_key,     \* SHMClient._last_key, per client
    last_model,   \* SHMClient._last_model, per client
    last_bufs,    \* SHMClient._last_bufs, per client
    _seed,        \* _rng_impl._seed: the root SeedSequence of the ModernRNG object
    np_seed,      \* what numpy.random and random were last seeded with by init_rng
    last          \* the call made last: what it was given, returned and raised

vars == <<enabled, mode, scopes, active, created, act_count, has_buffers, buffers,
          segs, keys, last_key, last_model, last_bufs, _seed, np_seed, last>>

\* the state of lenskit.util.random
rng_state == <<_seed, np_seed>>

-----------------------------------------------------------------------------
(* Bounds of the model. *)

\* the deepest nesting of entered stores
MaxAct == 2
\* how far below zero unmatched exits may drive an activation count
MaxUnder == 1
\* the number of keys put_model hands out
MaxPuts == 2
\* the number of segments the OS hands out
MaxSegs == 2
\* the deepest nesting of sharing_mode() scopes
MaxShare == 2
\* the largest entropy of a seed (a caller's integer, or what the OS draws)
MaxSeed == 2
\* the number of children spawned from one SeedSequence
MaxSpawn == 2

-----------------------------------------------------------------------------
(* The objects. *)

NoopStores == {"N"}
ShmStores == {"S"}
FileStores == {"F"}
Stores == NoopStores \cup ShmStores \cup FileStores

\* plain SHMClient objects; every SHMModelStore is an SHMClient too
PlainClients == {"c"}
Clients == PlainClients \cup ShmStores

\* the class of a store object
kind(s) == IF s \in NoopStores THEN "noop" ELSE IF s \in ShmStores THEN "shm" ELSE "file"

\* Python's None
None == [tag |-> "None"]

\* the page granularity the OS rounds a segment's size up to
PageSize == 2

\* a model: an inline part and the buffers it exposes out of band, in order
Model(inline, bufs) == [tag |-> "model", inline |-> inline, bufs |-> bufs]
Models == { Model(7, <<>>), Model(9, << <<1, 2>>, <<3>> >>) }

NoError == "none"

-----------------------------------------------------------------------------
(* The sharing-mode flag: __init__.py, _save_mode / sharing_mode /         *)
(* in_share_context.                                                       *)

\* _save_mode(): the mode of this context
_save_mode(md) == md

\* a faulty scope entry: remembers the old mode but does not switch to 'share'
sharing_mode_enter_keep(md) == [old |-> md, mode |-> md]

\* sharing_mode(), up to the yield: old = _save_mode(); mode = 'share'
sharing_mode_enter(md) == [old |-> _save_mode(md), mode |-> "share"]

\* a faulty finally clause: resets the mode instead of restoring the saved one
sharing_mode_exit_reset(old) == "save"

\* sharing_mode(), the finally clause: mode = old
sharing_mode_exit(old) == old

\* in_share_context()
in_share_context(md) == _save_mode(md) = "share"

-----------------------------------------------------------------------------
(* Store life cycle: BaseModelStore and SHMModelStore init / shutdown.     *)

\* the names of the blocks of all items of a store's `buffers` dict, in iteration order
RECURSIVE owned(_)
owned(items) == IF items = <<>> THEN <<>> ELSE Head(items)[2] \o owned(Tail(items))

\* the loop of SHMModelStore.shutdown: close and unlink each block in turn;
\* unlinking a name the OS no longer has raises FileNotFoundError and ends the loop
RECURSIVE unlink_each(_, _)
unlink_each(names, sg) ==
    IF names = <<>> THEN [err |-> NoError, segs |-> sg]
    ELSE IF ~sg[Head(names)].linked THEN [err |-> "FileNotFoundError", segs |-> sg]
    ELSE unlink_each(Tail(names), [sg EXCEPT ![Head(names)].linked = FALSE])

\* init(): the base class does nothing; SHMModelStore checks ENABLED and sets buffers = {}
init(s, en, has, bufs) ==
    IF kind(s) = "shm"
    THEN IF ~en
         THEN [err |-> "RuntimeError", has |-> has, bufs |-> bufs]
         ELSE [err |-> NoError, has |-> TRUE, bufs |-> <<>>]
    ELSE [err |-> NoError, has |-> has, bufs |-> bufs]

\* a faulty shutdown: closes its blocks and deletes the dict, but unlinks nothing
shutdown_no_unlink(s, has, bufs, sg) ==
    IF kind(s) = "shm"
    THEN IF ~has
         THEN [err |-> "AttributeError", has |-> has, bufs |-> bufs, segs |-> sg]
         ELSE [err |-> NoError, has |-> FALSE, bufs |-> <<>>, segs |-> sg]
    ELSE [err |-> NoError, has |-> has, bufs |-> bufs, segs |-> sg]

\* shutdown(): the base class does nothing; SHMModelStore unlinks what it owns
\* and deletes the attribute
shutdown(s, has, bufs, sg) ==
    IF kind(s) = "shm"
    THEN IF ~has
         THEN [err |-> "AttributeError", has |-> has, bufs |-> bufs, segs |-> sg]
         ELSE LET r == unlink_each(owned(bufs), sg) IN
              IF r.err # NoError
              THEN [err |-> r.err, has |-> has, bufs |-> bufs, segs |-> r.segs]
              ELSE [err |-> NoError, has |-> FALSE, bufs |-> <<>>, segs |-> r.segs]
    ELSE [err |-> NoError, has |-> has, bufs |-> bufs, segs |-> sg]

\* a faulty __enter__: init() on every entry, not only the first
__enter__init_always(s, cnt, stk, en, has, bufs) ==
    LET i == init(s, en, has, bufs)
    IN  IF i.err # NoError
        THEN [err |-> i.err, init |-> TRUE, cnt |-> cnt, stk |-> stk,
              has |-> i.has, bufs |-> i.bufs]
        ELSE [err |-> NoError, init |-> TRUE, cnt |-> cnt + 1, stk |-> Append(stk, s),
              has |-> i.has, bufs |-> i.bufs]

\* BaseModelStore.__enter__
__enter__(s, cnt, stk, en, has, bufs) ==
    LET called == cnt = 0
        i == IF called THEN init(s, en, has, bufs)
             ELSE [err |-> NoError, has |-> has, bufs |-> bufs]
    IN  IF i.err # NoError
        THEN [err |-> i.err, init |-> called, cnt |-> cnt, stk |-> stk,
              has |-> i.has, bufs |-> i.bufs]
        ELSE [err |-> NoError, init |-> called, cnt |-> cnt + 1, stk |-> Append(stk, s),
              has |-> i.has, bufs |-> i.bufs]

\* a faulty __exit__: pops the stack without asserting that its top is this store
__exit__pop_unchecked(s, cnt, stk, has, bufs, sg) ==
    LET c == cnt - 1
        called == c = 0
        d == IF called THEN shutdown(s, has, bufs, sg)
             ELSE [err |-> NoError, has |-> has, bufs |-> bufs, segs |-> sg]
        e == IF d.err # NoError THEN d.err
             ELSE IF stk = <<>> THEN "IndexError"
             ELSE NoError
    IN  [err |-> e, shutdown |-> called, cnt |-> c,
         stk |-> IF e = NoError THEN SubSeq(stk, 1, Len(stk) - 1) ELSE stk,
         has |-> d.has, bufs |-> d.bufs, segs |-> d.segs]

\* BaseModelStore.__exit__
__exit__(s, cnt, stk, has, bufs, sg) ==
    LET c == cnt - 1
        called == c = 0
        d == IF called THEN shutdown(s, has, bufs, sg)
             ELSE [err |-> NoError, has |-> has, bufs |-> bufs, segs |-> sg]
        e == IF d.err # NoError THEN d.err
             ELSE IF stk = <<>> THEN "IndexError"
             ELSE IF stk[Len(stk)] # s THEN "AssertionError"
             ELSE NoError
    IN  [err |-> e, shutdown |-> called, cnt |-> c,
         stk |-> IF e = NoError THEN SubSeq(stk, 1, Len(stk) - 1) ELSE stk,
         has |-> d.has, bufs |-> d.bufs, segs |-> d.segs]

\* a faulty BaseModelStore.__getstate__: the default, which pickles the store
BaseModelStore__getstate__default(o) == NoError

\* BaseModelStore.__getstate__: always raises
BaseModelStore__getstate__(o) == "RuntimeError"

\* SHMClient.__getstate__: raises when the object is a store, else returns {}
SHMClient__getstate__(o) == IF o \in Stores THEN "RuntimeError" ELSE NoError

\* pickling an object calls the first __getstate__ of its class's resolution order:
\* BaseModelStore's for every store, SHMClient's for a plain client
__getstate__(o) == IF o \in Stores THEN BaseModelStore__getstate__(o) ELSE SHMClient__getstate__(o)

\* a faulty get_store: reuses the outermost entered store, not the innermost
get_store_outermost(reuse, in_process, stk, en) ==
    IF reuse /\ stk # <<>> THEN [new |-> FALSE, store |-> stk[1], kind |-> ""]
    ELSE IF in_process THEN [new |-> TRUE, store |-> "", kind |-> "noop"]
    ELSE IF en THEN [new |-> TRUE, store |-> "", kind |-> "shm"]
    ELSE [new |-> TRUE, store |-> "", kind |-> "file"]

\* get_store(): the store to hand out, or the class to construct
get_store(reuse, in_process, stk, en) ==
    IF reuse /\ stk # <<>> THEN [new |-> FALSE, store |-> stk[Len(stk)], kind |-> ""]
    ELSE IF in_process THEN [new |-> TRUE, store |-> "", kind |-> "noop"]
    ELSE IF en THEN [new |-> TRUE, store |-> "", kind |-> "shm"]
    ELSE [new |-> TRUE, store |-> "", kind |-> "file"]

-----------------------------------------------------------------------------
(* The OS shared-memory primitive and the pickle engine, as the store and  *)
(* the client use them.                                                    *)

\* the size the OS gives a segment of n requested bytes: whole pages
allocated(n) == ((n + PageSize - 1) \div PageSize) * PageSize

\* n zero bytes
zeros(n) == [i \in 1..n |-> 0]

\* buf_cb putting the newest descriptor first
buf_cb_prepend(ba, st) ==
    LET name == Len(st.segs) + 1
        block == [linked |-> TRUE, size |-> allocated(Len(ba)),
                  data |-> ba \o zeros(allocated(Len(ba)) - Len(ba)),
                  by |-> st.by, live |-> st.live]
    IN  [st EXCEPT !.segs = Append(@, block),
                   !.buffers = Append(@, name),
                   !.buf_keys = <<<<name, Len(ba)>>>> \o @]

\* put_model's buf_cb: a new block of ba.nbytes bytes, the buffer blitted to its start;
\* the block goes on `buffers`, (block.name, ba.nbytes) on `buf_keys`.  The OS names
\* the block; `by` and `live` are history: the store whose put_model made the block,
\* and whether that store had its `buffers` dict (was initialised) at the time
buf_cb(ba, st) ==
    LET name == Len(st.segs) + 1
        block == [linked |-> TRUE, size |-> allocated(Len(ba)),
                  data |-> ba \o zeros(allocated(Len(ba)) - Len(ba)),
                  by |-> st.by, live |-> st.live]
    IN  [st EXCEPT !.segs = Append(@, block),
                   !.buffers = Append(@, name),
                   !.buf_keys = Append(@, <<name, Len(ba)>>)]

\* pickle.dumps(model, protocol=5, buffer_callback=buf_cb): the callback fires once per
\* buffer, in order; `left` callbacks complete before the fault (-1: no fault)
RECURSIVE dumps_from(_, _, _)
dumps_from(bufs, st, left) ==
    IF bufs = <<>> \/ left = 0 THEN st
    ELSE dumps_from(Tail(bufs), buf_cb(Head(bufs), st), left - 1)

\* the in-band pickle bytes: the inline part and one slot per out-of-band buffer
header(model) == [inline |-> model.inline, slots |-> Len(model.bufs)]

\* pickle.loads(data, buffers=views): the slots are filled from the views, in order
loads(data, views) ==
    IF Len(views) # data.slots THEN [err |-> "UnpicklingError", model |-> None]
    ELSE [err |-> NoError, model |-> Model(data.inline, views)]

\* the faults a put_model call can meet while encoding a model: none, an encoding
\* error after `after` callbacks, or the allocation of block after+1 failing
Faults(model) ==
    {[err |-> NoError, after |-> -1]}
    \cup {[err |-> "PicklingError", after |-> k] : k \in 0..Len(model.bufs)}
    \cup {[err |-> "OSError", after |-> k] : k \in 0..(Len(model.bufs) - 1)}

SHMKey(id, data, bufs) == [id |-> id, data |-> data, buffers |-> bufs]

\* SHMModelStore.put_model
SHM_put_model(s, model, fault, id, md, en, has, bufs, sg) ==
    LET sm == sharing_mode_enter(md)
        st0 == [segs |-> sg, buffers |-> <<>>, buf_keys |-> <<>>, by |-> s, live |-> has]
        \* without the shared_memory module the first callback raises
        f == IF ~en /\ model.bufs # <<>> /\ fault.after # 0
             THEN [err |-> "AttributeError", after |-> 0] ELSE fault
        st == dumps_from(model.bufs, st0, f.after)
        md1 == sharing_mode_exit(sm.old)
    IN  IF f.err # NoError
        THEN [err |-> f.err, ret |-> None, mode |-> md1, during |-> in_share_context(sm.mode),
              bufs |-> bufs, segs |-> st.segs]
        ELSE IF ~has
        THEN [err |-> "AttributeError", ret |-> None, mode |-> md1, during |-> in_share_context(sm.mode),
              bufs |-> bufs, segs |-> st.segs]
        ELSE [err |-> NoError, ret |-> SHMKey(id, header(model), st.buf_keys),
              mode |-> md1, during |-> in_share_context(sm.mode),
              bufs |-> Append(bufs, <<id, st.buffers>>), segs |-> st.segs]

\* a faulty loop: the view is the whole block, padding included
RECURSIVE open_each_whole(_, _, _)
open_each_whole(descs, sg, st) ==
    IF descs = <<>> THEN st
    ELSE LET bn == Head(descs)[1]
         IN  IF ~sg[bn].linked
             THEN [st EXCEPT !.err = "FileNotFoundError", !.opens = @ + 1]
             ELSE open_each_whole(Tail(descs), sg,
                                  [st EXCEPT !.opens = @ + 1,
                                             !.buffers = Append(@, sg[bn].data),
                                             !.shm_bufs = Append(@, bn)])

\* the loop of SHMClient.get_model: open each named block, view its first bs bytes
RECURSIVE open_each(_, _, _)
open_each(descs, sg, st) ==
    IF descs = <<>> THEN st
    ELSE LET bn == Head(descs)[1]
             bs == Head(descs)[2]
         IN  IF ~sg[bn].linked
             THEN [st EXCEPT !.err = "FileNotFoundError", !.opens = @ + 1]
             ELSE open_each(Tail(descs), sg,
                            [st EXCEPT !.opens = @ + 1,
                                       !.buffers = Append(@, SubSeq(sg[bn].data, 1, bs)),
                                       !.shm_bufs = Append(@, bn)])

\* a faulty get_model: never reuses the cached model
SHM_get_model_uncached(key, lk, lm, lb, sg, en) ==
    LET o == open_each(key.buffers, sg,
                       [err |-> NoError, opens |-> 0, buffers |-> <<>>, shm_bufs |-> <<>>])
        l == loads(key.data, o.buffers)
    IN  IF o.err # NoError
        THEN [err |-> o.err, ret |-> None, opens |-> o.opens,
              last_key |-> lk, last_model |-> None, last_bufs |-> None]
        ELSE [err |-> NoError, ret |-> l.model, opens |-> o.opens,
              last_key |-> key, last_model |-> l.model, last_bufs |-> o.shm_bufs]

\* SHMClient.get_model
SHM_get_model(key, lk, lm, lb, sg, en) ==
    IF lk # None /\ lk.id = key.id
    THEN [err |-> NoError, ret |-> lm, opens |-> 0,
          last_key |-> lk, last_model |-> lm, last_bufs |-> lb]
    ELSE IF ~en /\ key.buffers # <<>>
    THEN [err |-> "AttributeError", ret |-> None, opens |-> 0,
          last_key |-> lk, last_model |-> None, last_bufs |-> None]
    ELSE LET o == open_each(key.buffers, sg,
                            [err |-> NoError, opens |-> 0, buffers |-> <<>>, shm_bufs |-> <<>>])
             l == loads(key.data, o.buffers)
         IN  IF o.err # NoError
             THEN [err |-> o.err, ret |-> None, opens |-> o.opens,
                   last_key |-> lk, last_model |-> None, last_bufs |-> None]
             ELSE IF l.err # NoError
             THEN [err |-> l.err, ret |-> None, opens |-> o.opens,
                   last_key |-> lk, last_model |-> None, last_bufs |-> None]
             ELSE [err |-> NoError, ret |-> l.model, opens |-> o.opens,
                   last_key |-> key, last_model |-> l.model, last_bufs |-> o.shm_bufs]

\* numpy.random.SeedSequence(entropy, spawn_key=...): a new object, no children spawned
SeedSequence(entropy, spawn_key) ==
    [entropy |-> entropy, spawn_key |-> spawn_key, n_children_spawned |-> 0]

\* what callers pass as a seed: an int, or something that is no seed (a str)
SeedArgs == {[type |-> "int", value |-> v] : v \in 0..MaxSeed}
            \cup {[type |-> "str", value |-> 0]}

\* what callers pass as keys (ints, which _make_int returns as they are)
KeyArgs == {<<>>, <<1>>, <<1, 2>>}

\* SeedSequence.generate_state(1)[0]: the 32-bit word numpy hashes from the entropy
\* and the spawn key, kept as the pair it is a function of
generate_state(ss) == [word_of |-> <<ss.entropy, ss.spawn_key>>]

\* the property ModernRNG.seed: the root seed, made from OS entropy when there is none;
\* `fresh` is what the OS would draw
seed(cur, fresh) == IF cur = None THEN SeedSequence(fresh, <<>>) ELSE cur

\* the property ModernRNG.int_seed
int_seed(cur) == generate_state(cur)

\* ModernRNG.derive: a seed keyed by `keys`, or the base's next child; `root` is the
\* root seed after the call (a spawn counts on the base object)
derive(base, ks, cur, fresh) ==
    LET rootbase == base = None
        b == IF rootbase THEN seed(cur, fresh) ELSE base
    IN  IF ks # <<>>
        THEN [ret |-> SeedSequence(b.entropy, b.spawn_key \o ks),
              root |-> IF rootbase THEN b ELSE cur]
        ELSE [ret |-> SeedSequence(b.entropy, Append(b.spawn_key, b.n_children_spawned)),
              root |-> IF rootbase
                       THEN [b EXCEPT !.n_children_spawned = @ + 1] ELSE cur]

\* ModernRNG.initialize
initialize(sd, ks, cur) ==
    IF sd.type # "int" THEN [err |-> "TypeError", ret |-> None, root |-> cur]
    ELSE LET s0 == SeedSequence(sd.value, <<>>)
             s1 == IF ks # <<>> THEN derive(s0, ks, cur, 0).ret ELSE s0
         IN  [err |-> NoError, ret |-> s1, root |-> s1]

\* init_rng(seed, *keys, propagate=...)
init_rng(sd, ks, propagate, cur, np) ==
    LET i == initialize(sd, ks, cur) IN
    IF i.err # NoError THEN [err |-> i.err, ret |-> None, root |-> cur, np |-> np]
    ELSE [err |-> NoError, ret |-> seed(i.root, 0), root |-> i.root,
          np |-> IF propagate THEN int_seed(i.root) ELSE np]

\* get_root_seed(): reads the property ModernRNG.seed and calls what it gets; a
\* SeedSequence is not callable
get_root_seed(cur, fresh) ==
    [err |-> "TypeError", ret |-> None, root |-> seed(cur, fresh)]

\* derive_seed(*keys, base=None)
derive_seed(ks, cur, fresh) == derive(None, ks, cur, fresh)

\* NoopModelStore.put_model / get_model / client
Noop_put_model(model) == model
Noop_get_model(key) == key
Noop_client(s) == s

-----------------------------------------------------------------------------
(* The state machine. *)

\* the record of a call: its name, receiver, argument (the key's id for get_model,
\* the two flags for get_store), the
\* exception it raised, what it returned, whether it called init / shutdown (enter,
\* exit), encoded in sharing mode (put_model) or seeded the global RNGs (init_rng),
\* and the number of segments it opened (get_model) or created (put_model)
Args(reuse, in_process) == [reuse |-> reuse, in_process |-> in_process]
Ref(s) == [store |-> s]
Call(op, obj, arg, err, ret, flag, n) ==
    [op |-> op, obj |-> obj, arg |-> arg, err |-> err, ret |-> ret, flag |-> flag,
     n |-> n]

Init ==
    /\ enabled \in BOOLEAN
    /\ mode = "save"
    /\ scopes = <<>>
    /\ active = <<>>
    /\ created = {}
    /\ act_count = [s \in Stores |-> 0]
    /\ has_buffers = [s \in ShmStores |-> FALSE]
    /\ buffers = [s \in ShmStores |-> <<>>]
    /\ segs = <<>>
    /\ keys = <<>>
    /\ last_key = [c \in Clients |-> None]
    /\ last_model = [c \in Clients |-> None]
    /\ _seed = None
    /\ np_seed = None
    /\ last_bufs = [c \in Clients |-> None]
    /\ last = Call("start", "", None, NoError, None, FALSE, 0)

\* the attribute `buffers` of a store (only SHMModelStore objects ever have one)
HasBuffers(s) == s \in ShmStores /\ has_buffers[s]
Buffers(s) == IF s \in ShmStores THEN buffers[s] ELSE <<>>

\* NoopModelStore() / SHMModelStore(): a caller constructs a store itself
NewStore(s) ==
    /\ s \in (NoopStores \cup ShmStores) \ created
    /\ created' = created \cup {s}
    /\ last' = Call("new", s, None, NoError, None, FALSE, 0)
    /\ UNCHANGED <<rng_state, enabled, mode, scopes, active, act_count, has_buffers, buffers, segs,
                   keys, last_key, last_model, last_bufs>>

\* get_store(reuse, in_process=...)
GetStore(reuse, in_process) ==
    LET g == get_store(reuse, in_process, active, enabled) IN
    IF ~g.new
    THEN /\ last' = Call("get_store", "", Args(reuse, in_process), NoError, Ref(g.store), FALSE, 0)
         /\ UNCHANGED <<rng_state, enabled, mode, scopes, active, created, act_count, has_buffers,
                        buffers, segs, keys, last_key, last_model, last_bufs>>
    ELSE \E s \in Stores \ created :
         /\ kind(s) = g.kind
         /\ created' = created \cup {s}
         /\ last' = Call("get_store", "", Args(reuse, in_process), NoError, Ref(s), TRUE, 0)
         /\ UNCHANGED <<rng_state, enabled, mode, scopes, active, act_count, has_buffers, buffers,
                        segs, keys, last_key, last_model, last_bufs>>

\* with store: ... the entry
Enter(s) ==
    /\ s \in created /\ kind(s) # "file"
    /\ Len(active) < MaxAct
    /\ LET r == __enter__(s, act_count[s], active, enabled, HasBuffers(s), Buffers(s)) IN
       /\ act_count' = [act_count EXCEPT ![s] = r.cnt]
       /\ active' = r.stk
       /\ IF s \in ShmStores
          THEN /\ has_buffers' = [has_buffers EXCEPT ![s] = r.has]
               /\ buffers' = [buffers EXCEPT ![s] = r.bufs]
          ELSE UNCHANGED <<has_buffers, buffers>>
       /\ last' = Call("enter", s, None, r.err, None, r.init, 0)
    /\ UNCHANGED <<rng_state, enabled, mode, scopes, created, segs, keys, last_key, last_model,
                   last_bufs>>

\* with store: ... the exit (or a direct call of __exit__)
Exit(s) ==
    /\ s \in created /\ kind(s) # "file"
    /\ act_count[s] - 1 >= -MaxUnder
    /\ LET r == __exit__(s, act_count[s], active, HasBuffers(s), Buffers(s), segs) IN
       /\ act_count' = [act_count EXCEPT ![s] = r.cnt]
       /\ active' = r.stk
       /\ segs' = r.segs
       /\ IF s \in ShmStores
          THEN /\ has_buffers' = [has_buffers EXCEPT ![s] = r.has]
               /\ buffers' = [buffers EXCEPT ![s] = r.bufs]
          ELSE UNCHANGED <<has_buffers, buffers>>
       /\ last' = Call("exit", s, None, r.err, None, r.shutdown, 0)
    /\ UNCHANGED <<rng_state, enabled, mode, scopes, created, keys, last_key, last_model, last_bufs>>

\* store.put_model(model) on a shared-memory store
PutModel(s, model, fault) ==
    /\ s \in created \cap ShmStores
    /\ Len(keys) < MaxPuts
    /\ Len(segs) + Len(model.bufs) <= MaxSegs
    /\ LET r == SHM_put_model(s, model, fault, Len(keys) + 1, mode, enabled,
                              has_buffers[s], buffers[s], segs) IN
       /\ mode' = r.mode
       /\ segs' = r.segs
       /\ buffers' = [buffers EXCEPT ![s] = r.bufs]
       /\ keys' = IF r.err = NoError THEN Append(keys, r.ret) ELSE keys
       /\ last' = Call("put_model", s, None, r.err, r.ret, r.during, Len(r.segs) - Len(segs))
    /\ UNCHANGED <<rng_state, enabled, scopes, active, created, act_count, has_buffers, last_key,
                   last_model, last_bufs>>

\* client.get_model(key) on a shared-memory client (a plain client or a store)
GetModel(c, key) ==
    /\ c \in PlainClients \cup (created \cap ShmStores)
    /\ LET r == SHM_get_model(key, last_key[c], last_model[c], last_bufs[c], segs, enabled) IN
       /\ last_key' = [last_key EXCEPT ![c] = r.last_key]
       /\ last_model' = [last_model EXCEPT ![c] = r.last_model]
       /\ last_bufs' = [last_bufs EXCEPT ![c] = r.last_bufs]
       /\ last' = Call("get_model", c, [id |-> key.id], r.err, r.ret, FALSE, r.opens)
    /\ UNCHANGED <<rng_state, enabled, mode, scopes, active, created, act_count, has_buffers, buffers,
                   segs, keys>>

\* store.put_model(model) on a no-op store
NoopPut(s, model) ==
    /\ s \in created \cap NoopStores
    /\ last' = Call("put_model", s, model, NoError, Noop_put_model(model), in_share_context(mode), 0)
    /\ UNCHANGED <<rng_state, enabled, mode, scopes, active, created, act_count, has_buffers, buffers,
                   segs, keys, last_key, last_model, last_bufs>>

\* store.client().get_model(key) on a no-op store; its keys are the models themselves
NoopGet(s, key) ==
    /\ s \in created \cap NoopStores
    /\ last' = Call("get_model", Noop_client(s), key, NoError, Noop_get_model(key), FALSE, 0)
    /\ UNCHANGED <<rng_state, enabled, mode, scopes, active, created, act_count, has_buffers, buffers,
                   segs, keys, last_key, last_model, last_bufs>>

\* pickle.dumps(o) of a store or a client
Pickle(o) ==
    /\ o \in created \cup PlainClients
    /\ last' = Call("pickle", o, None, __getstate__(o), None, FALSE, 0)
    /\ UNCHANGED <<rng_state, enabled, mode, scopes, active, created, act_count, has_buffers, buffers,
                   segs, keys, last_key, last_model, last_bufs>>

\* with sharing_mode(): ... the entry
EnterShare ==
    /\ Len(scopes) < MaxShare
    /\ LET sm == sharing_mode_enter(mode) IN
       /\ scopes' = Append(scopes, sm.old)
       /\ mode' = sm.mode
    /\ last' = Call("share_enter", "", None, NoError, None, FALSE, 0)
    /\ UNCHANGED <<rng_state, enabled, active, created, act_count, has_buffers, buffers, segs, keys,
                   last_key, last_model, last_bufs>>

\* with sharing_mode(): ... the exit of the innermost scope, normally or by an exception
\* of the body, which the generator's finally clause lets through
ExitShare(raised) ==
    /\ scopes # <<>>
    /\ mode' = sharing_mode_exit(scopes[Len(scopes)])
    /\ scopes' = SubSeq(scopes, 1, Len(scopes) - 1)
    /\ last' = Call("share_exit", "", None, IF raised THEN "Exception" ELSE NoError,
                    None, FALSE, 0)
    /\ UNCHANGED <<rng_state, enabled, active, created, act_count, has_buffers, buffers, segs, keys,
                   last_key, last_model, last_bufs>>

\* store.init() called by a caller itself, on a store in any state
InitCall(s) ==
    /\ s \in created /\ kind(s) # "file"
    /\ LET r == init(s, enabled, HasBuffers(s), Buffers(s)) IN
       /\ IF s \in ShmStores
          THEN /\ has_buffers' = [has_buffers EXCEPT ![s] = r.has]
               /\ buffers' = [buffers EXCEPT ![s] = r.bufs]
          ELSE UNCHANGED <<has_buffers, buffers>>
       /\ last' = Call("init", s, None, r.err, None, FALSE, 0)
    /\ UNCHANGED <<rng_state, enabled, mode, scopes, active, created, act_count, segs, keys,
                   last_key, last_model, last_bufs>>

\* another process that knows a segment's name removes it: SharedMemory(name=n).unlink()
PeerUnlink(n) ==
    /\ n \in 1..Len(segs) /\ segs[n].linked
    /\ segs' = [segs EXCEPT ![n].linked = FALSE]
    /\ last' = Call("peer_unlink", "peer", None, NoError, None, FALSE, 0)
    /\ UNCHANGED <<rng_state, enabled, mode, scopes, active, created, act_count, has_buffers, buffers,
                   keys, last_key, last_model, last_bufs>>

\* init_rng(seed, *keys, propagate=propagate)
InitRng(sd, ks, propagate) ==
    /\ LET r == init_rng(sd, ks, propagate, _seed, np_seed) IN
       /\ _seed' = r.root
       /\ np_seed' = r.np
       /\ last' = Call("init_rng", "", [seed |-> sd, keys |-> ks], r.err, r.ret,
                       propagate, 0)
    /\ UNCHANGED <<enabled, mode, scopes, active, created, act_count, has_buffers, buffers,
                   segs, keys, last_key, last_model, last_bufs>>

\* get_root_seed()
GetRootSeed(fresh) ==
    /\ LET r == get_root_seed(_seed, fresh) IN
       /\ _seed' = r.root
       /\ last' = Call("get_root_seed", "", None, r.err, r.ret, FALSE, 0)
    /\ UNCHANGED <<np_seed, enabled, mode, scopes, active, created, act_count, has_buffers,
                   buffers, segs, keys, last_key, last_model, last_bufs>>

\* derive_seed(*keys)
DeriveSeed(ks, fresh) ==
    /\ ks = <<>> /\ _seed # None => _seed.n_children_spawned < MaxSpawn
    /\ LET r == derive_seed(ks, _seed, fresh) IN
       /\ _seed' = r.root
       /\ last' = Call("derive_seed", "", [keys |-> ks], NoError, r.ret, FALSE, 0)
    /\ UNCHANGED <<np_seed, enabled, mode, scopes, active, created, act_count, has_buffers,
                   buffers, segs, keys, last_key, last_model, last_bufs>>

\* the keys a caller can hold: every key put_model has returned
IssuedKeys == {keys[i] : i \in 1..Len(keys)}

(* The whole program: every call, in any order. *)
Next ==
    \/ \E s \in Stores : NewStore(s)
    \/ \E reuse \in BOOLEAN, in_process \in BOOLEAN : GetStore(reuse, in_process)
    \/ \E s \in Stores : Enter(s)
    \/ \E s \in Stores : Exit(s)
    \/ \E s \in ShmStores, model \in Models : \E fault \in Faults(model) :
          PutModel(s, model, fault)
    \/ \E c \in Clients, key \in IssuedKeys : GetModel(c, key)
    \/ \E s \in NoopStores, model \in Models : NoopPut(s, model)
    \/ \E s \in NoopStores, key \in Models : NoopGet(s, key)
    \/ \E o \in Stores \cup PlainClients : Pickle(o)
    \/ EnterShare
    \/ \E raised \in BOOLEAN : ExitShare(raised)
    \/ \E n \in 1..MaxSegs : PeerUnlink(n)
    \/ \E s \in Stores : InitCall(s)
    \/ \E sd \in SeedArgs, ks \in KeyArgs, propagate \in BOOLEAN : InitRng(sd, ks, propagate)
    \/ \E fresh \in 0..MaxSeed : GetRootSeed(fresh)
    \/ \E ks \in KeyArgs, fresh \in 0..MaxSeed : DeriveSeed(ks, fresh)

Spec == Init /\ [][Next]_vars

(* The program's callers, by what they exercise.  Each specification below lets *)
(* a part of Next run, so that its state space can be searched to the end.      *)

\* Store selection and activation: stores are made, selected, entered and exited in any
\* order (balanced or not), filled and pickled; no client resolves a key.
NextAct ==
    \/ \E s \in Stores : NewStore(s)
    \/ \E reuse \in BOOLEAN, in_process \in BOOLEAN : GetStore(reuse, in_process)
    \/ \E s \in Stores : Enter(s)
    \/ \E s \in Stores : Exit(s)
    \/ \E s \in ShmStores, model \in Models : \E fault \in Faults(model) :
          PutModel(s, model, fault)
    \/ \E o \in Stores \cup PlainClients : Pickle(o)

SpecAct == Init /\ [][NextAct]_vars

\* a with-block's exit: the store is the innermost entered one
BalancedExit(s) ==
    /\ act_count[s] > 0 /\ active # <<>> /\ active[Len(active)] = s
    /\ Exit(s)

\* Storing and resolving: stores are entered and exited as with-blocks do, filled, and
\* their keys resolved by the plain client and by the store itself.
NextShm ==
    \/ \E s \in Stores : NewStore(s)
    \/ \E s \in Stores : Enter(s)
    \/ \E s \in Stores : BalancedExit(s)
    \/ \E s \in ShmStores, model \in Models : \E fault \in Faults(model) :
          PutModel(s, model, fault)
    \/ \E c \in Clients, key \in IssuedKeys : GetModel(c, key)
    \/ \E s \in NoopStores, model \in Models : NoopPut(s, model)
    \/ \E s \in NoopStores, key \in Models : NoopGet(s, key)

SpecShm == Init /\ [][NextShm]_vars

\* The sharing mode: sharing_mode() scopes opened and closed around put_model calls.
NextMode ==
    \/ \E s \in Stores : NewStore(s)
    \/ \E s \in Stores : Enter(s)
    \/ \E s \in ShmStores, model \in Models : \E fault \in Faults(model) :
          PutModel(s, model, fault)
    \/ EnterShare
    \/ \E raised \in BOOLEAN : ExitShare(raised)

SpecMode == Init /\ [][NextMode]_vars

\* Segments removed behind the store's back: a store is entered and exited as with-blocks
\* do and filled, while a peer process unlinks segments by name.
NextPeer ==
    \/ \E s \in Stores : NewStore(s)
    \/ \E s \in Stores : Enter(s)
    \/ \E s \in Stores : BalancedExit(s)
    \/ \E s \in ShmStores, model \in Models : \E fault \in Faults(model) :
          PutModel(s, model, fault)
    \/ \E n \in 1..MaxSegs : PeerUnlink(n)

SpecPeer == Init /\ [][NextPeer]_vars

\* init() called again: a store is entered and exited as with-blocks do and filled by
\* put_model calls that all return, and init() is called on it at any time.
NextInit ==
    \/ \E s \in Stores : NewStore(s)
    \/ \E s \in Stores : Enter(s)
    \/ \E s \in Stores : BalancedExit(s)
    \/ \E s \in ShmStores, model \in Models :
          PutModel(s, model, [err |-> NoError, after |-> -1])
    \/ \E s \in Stores : InitCall(s)

SpecInit == Init /\ [][NextInit]_vars

\* The root seed: the RNG is initialised, asked for its root seed, and seeds are
\* derived from it, in any order.
NextRng ==
    \/ \E sd \in SeedArgs, ks \in KeyArgs, propagate \in BOOLEAN : InitRng(sd, ks, propagate)
    \/ \E fresh \in 0..MaxSeed : GetRootSeed(fresh)
    \/ \E ks \in KeyArgs, fresh \in 0..MaxSeed : DeriveSeed(ks, fresh)

SpecRng == Init /\ [][NextRng]_vars

-----------------------------------------------------------------------------
(* Properties. *)

\* the names of the segments the OS still has
Linked == {n \in 1..Len(segs) : segs[n].linked}

\* the names of the blocks in a store's `buffers` dict
RECURSIVE Range(_)
Range(seq) == IF seq = <<>> THEN {} ELSE {Head(seq)} \cup Range(Tail(seq))
Owned(s) == Range(owned(Buffers(s)))

\* the top of the activation stack
Top(stk) == stk[Len(stk)]

\* C2: Reentrant activation.  An entry calls init only from an activation count of 0,
\* and an entry that returns called init exactly if it took the count from 0 to 1; an
\* exit calls shutdown exactly if it takes the count from 1 to 0.  Entering an active
\* store keeps its owned-segment map, and an exit that does not take the count from 1
\* to 0 unlinks nothing and keeps the map: what the outer scope stored stays linked.
C2_ReentrantActivation ==
    [][ LET s == last'.obj IN
        /\ last'.op = "enter" =>
             /\ last'.flag => act_count[s] = 0
             /\ last'.err = NoError =>
                  (last'.flag <=> (act_count[s] = 0 /\ act_count'[s] = 1))
             /\ segs' = segs
             /\ act_count[s] >= 1 => (buffers' = buffers /\ has_buffers' = has_buffers)
        /\ last'.op = "exit" =>
             /\ last'.flag <=> (act_count[s] = 1 /\ act_count'[s] = 0)
             /\ ~last'.flag =>
                  (segs' = segs /\ buffers' = buffers /\ has_buffers' = has_buffers)
      ]_vars

\* C2's case: an inner exit of a store that is still active and owns a linked segment
C2_Witness ==
    /\ last.op = "exit" /\ last.obj = "S" /\ last.err = NoError /\ ~last.flag
    /\ act_count["S"] = 1
    /\ Owned("S") # {} /\ Owned("S") \subseteq Linked

\* C8: Store selection.  get_store(reuse, in_process) returns the top of the activation
\* stack when reuse holds and the stack is not empty; otherwise a new no-op store when
\* in_process holds; otherwise a new shared-memory store when ENABLED, else a new file
\* store.  Two reusing calls in a row return the same store, and no call changes the
\* stack or an activation count.
C8_StoreSelection ==
    [][ last'.op = "get_store" =>
          LET reuse == last'.arg.reuse
              in_process == last'.arg.in_process
              ret == last'.ret.store
          IN  /\ active' = active /\ act_count' = act_count
              /\ IF reuse /\ active # <<>>
                 THEN ret = Top(active) /\ created' = created
                 ELSE /\ ret \notin created /\ created' = created \cup {ret}
                      /\ act_count[ret] = 0
                      /\ kind(ret) = IF in_process THEN "noop"
                                     ELSE IF enabled THEN "shm" ELSE "file"
              /\ (last.op = "get_store" /\ last.arg.reuse /\ reuse /\ active # <<>>)
                     => ret = last.ret.store
      ]_vars

\* C8's case: inside two nested scopes of different stores, a reusing call was given
\* the innermost one
C8_Witness ==
    /\ last.op = "get_store" /\ last.arg.reuse /\ last.arg.in_process
    /\ Len(active) = 2 /\ active[1] # active[2]
    /\ last.ret.store = active[2]

\* C9: A store refuses transfer.  Pickling a store raises, whatever its activation
\* state, and changes neither its activation count, nor the stack, nor what it owns;
\* pickling a plain shared-memory client succeeds.
C9_StoreRefusesTransfer ==
    [][ last'.op = "pickle" =>
          /\ last'.obj \in Stores => last'.err = "RuntimeError"
          /\ last'.obj \in PlainClients => last'.err = NoError
          /\ UNCHANGED <<act_count, active, has_buffers, buffers, segs>>
      ]_vars

\* C9's case: an active shared-memory store that owns a linked segment refused
C9_Witness ==
    /\ last.op = "pickle" /\ last.obj = "S" /\ last.err = "RuntimeError"
    /\ act_count["S"] >= 1
    /\ Owned("S") # {} /\ Owned("S") \subseteq Linked

\* C10: Stack discipline.  An exit that returns removes exactly the exiting store, from
\* the top of the stack; an exit of a store that is not the top raises AssertionError,
\* and every exit that raises leaves the stack as it was.
C10_StackDiscipline ==
    [][ last'.op = "exit" =>
          LET s == last'.obj IN
          /\ last'.err = NoError => (active # <<>> /\ active = Append(active', s))
          /\ (active # <<>> /\ Top(active) # s) => last'.err = "AssertionError"
          /\ last'.err # NoError => active' = active
      ]_vars

\* C10's case: S entered, then N entered, then S exited: the exit was rejected
C10_Witness ==
    /\ last.op = "exit" /\ last.obj = "S" /\ last.err = "AssertionError"
    /\ active = <<"S", "N">>

\* the ids of the models in a store's `buffers` dict
OwnedIds(s) == {Buffers(s)[i][1] : i \in 1..Len(Buffers(s))}

\* the key a get_model call was given
KeyOf(call) == keys[call.arg.id]

\* the model a key was made from: put_model is only given models of Models, and their
\* headers differ
ModelOf(key) == CHOOSE m \in Models : header(m) = key.data

\* whether a client's cache holds an entry for the key
Cached(c, key) == last_key[c] # None /\ last_key[c].id = key.id

\* shutdown() was called by the last exit and returned
ShutdownReturned ==
    /\ last.op = "exit" /\ last.flag
    /\ last.err \notin {"AttributeError", "FileNotFoundError"}

\* C1: Round-trip.  While a shared-memory store is active, get_model of a key that
\* store's put_model returned (in this activation) returns the model that was put, on
\* any client and after any earlier calls; the no-op store's get_model returns the
\* model its put_model was given.
C1_RoundTrip ==
    /\ (last.op = "get_model" /\ last.obj \in Clients
          /\ act_count["S"] >= 1 /\ last.arg.id \in OwnedIds("S"))
       => (last.err = NoError /\ last.ret = ModelOf(KeyOf(last)))
    /\ (last.op = "get_model" /\ last.obj \in NoopStores)
       => (last.err = NoError /\ last.ret = Noop_put_model(last.arg))

\* C3: Cleanup.  After a shared-memory store's shutdown() returns, every segment that
\* store's put_model calls allocated while it was initialised is unlinked, and the
\* store owns nothing.
C3_Cleanup ==
    (ShutdownReturned /\ last.obj \in ShmStores) =>
        /\ \A n \in 1..Len(segs) :
              (segs[n].by = last.obj /\ segs[n].live) => ~segs[n].linked
        /\ Owned(last.obj) = {}

\* C4, as claimed: After the owning store's shutdown, get_model of a key with at least
\* one buffer descriptor raises FileNotFoundError on every client.
C4_NotFoundOnEveryClient ==
    (last.op = "get_model" /\ last.obj \in Clients
       /\ KeyOf(last).buffers # <<>> /\ last.arg.id \notin OwnedIds("S"))
    => last.err = "FileNotFoundError"

\* C4, amended: After the owning store's shutdown, get_model of a key with at least one
\* buffer descriptor raises FileNotFoundError on every client whose cache holds no
\* entry for that key's id.
C4_NotFoundUnlessCached ==
    [][ (last'.op = "get_model" /\ last'.obj \in Clients) =>
          LET c == last'.obj
              key == KeyOf(last')
          IN  (key.buffers # <<>> /\ key.id \notin OwnedIds("S") /\ ~Cached(c, key))
                  => last'.err = "FileNotFoundError"
      ]_vars

\* C4's case: the store itself, shut down, is asked for a key it had resolved before it
\* resolved another one
C4_Witness ==
    /\ last.op = "get_model" /\ last.obj = "S" /\ last.err = "FileNotFoundError"
    /\ act_count["S"] = 0 /\ ~has_buffers["S"]
    /\ last_key["S"] # None /\ last_key["S"].id # last.arg.id

\* C5: put_model rollback.  When encoding or an allocation fails after put_model (of
\* an active store) has created segments, none of the segments that call created is
\* left linked.
C5_PutRollback ==
    (last.op = "put_model" /\ last.err \in {"PicklingError", "OSError"} /\ last.n >= 1
       /\ act_count[last.obj] >= 1)
    => \A n \in (Len(segs) - last.n + 1)..Len(segs) : ~segs[n].linked

\* C6: Cache hit.  When the client's cache holds an entry for the key's id, get_model
\* returns the cached model, opens no segment and leaves the cache as it is; a second
\* get_model of the same key right after a successful one opens nothing and returns the
\* same model.
C6_CacheHit ==
    [][ (last'.op = "get_model" /\ last'.obj \in Clients) =>
          LET c == last'.obj
              key == KeyOf(last')
          IN  /\ Cached(c, key) =>
                   /\ last'.err = NoError /\ last'.ret = last_model[c] /\ last'.n = 0
                   /\ UNCHANGED <<last_key, last_model, last_bufs>>
              /\ (last.op = "get_model" /\ last.obj = c /\ last.arg = last'.arg
                    /\ last.err = NoError)
                   => (last'.err = NoError /\ last'.n = 0 /\ last'.ret = last.ret)
      ]_vars

\* C6's case: a key with two buffers was resolved again, without an open, after the
\* segments were opened by the call before
C6_Witness ==
    /\ last.op = "get_model" /\ last.obj = "c" /\ last.err = NoError /\ last.n = 0
    /\ Len(KeyOf(last).buffers) = 2
    /\ last.ret = ModelOf(KeyOf(last))

\* C7: Sharing-mode scopes nest and restore.  The mode is 'share' exactly while a
\* sharing_mode() scope is open, and 'save' once all are closed, however the scopes
\* were left.
C7_ModeNests == in_share_context(mode) <=> (scopes # <<>>)

\* C7's case: of two nested scopes the inner one was left by an exception, and the mode
\* is still 'share'
C7_Witness ==
    /\ last.op = "share_exit" /\ last.err = "Exception"
    /\ Len(scopes) = 1 /\ mode = "share"

\* the view get_model builds for a descriptor (name, length) of a key
ViewOf(desc) == SubSeq(segs[desc[1]].data, 1, desc[2])

\* C11: Positional binding.  A key put_model returned for a model with N out-of-band
\* buffers has exactly N descriptors, and the i-th names the segment that holds the
\* i-th buffer; a get_model that opens the segments hands the decoder, as its i-th
\* view, the view of the i-th descriptor's segment.
C11_PositionalBinding ==
    /\ \A k \in 1..Len(keys) :
         LET key == keys[k]
             m == ModelOf(key)
         IN  /\ Len(key.buffers) = Len(m.bufs)
             /\ \A i \in 1..Len(m.bufs) :
                  /\ key.buffers[i][1] \in 1..Len(segs)
                  /\ SubSeq(segs[key.buffers[i][1]].data, 1, Len(m.bufs[i])) = m.bufs[i]
    /\ (last.op = "get_model" /\ last.obj \in Clients /\ last.err = NoError /\ last.n > 0)
       => LET key == KeyOf(last) IN
            /\ Len(last.ret.bufs) = Len(key.buffers)
            /\ \A i \in 1..Len(key.buffers) : last.ret.bufs[i] = ViewOf(key.buffers[i])

\* C11's case: a key with two descriptors was resolved by opening both segments
C11_Witness ==
    /\ last.op = "get_model" /\ last.obj \in Clients /\ last.err = NoError
    /\ last.n = 2 /\ Len(KeyOf(last).buffers) = 2
    /\ Len(ModelOf(KeyOf(last)).bufs) = 2

\* C12: shutdown() tolerates peer removal.  Whenever an exit calls a shared-memory
\* store's shutdown(), also after another party unlinked one of the store's segments,
\* shutdown() returns without raising, every segment the store owned is unlinked, and
\* the owned-segment map is cleared.
C12_ShutdownToleratesPeer ==
    (last.op = "exit" /\ last.obj \in ShmStores /\ last.flag)
    => /\ last.err = NoError
       /\ ~HasBuffers(last.obj)
       /\ Owned(last.obj) \cap Linked = {}

\* C13: init() is idempotent.  After init() returned on a shared-memory store, every
\* linked segment the store allocated while it was initialised is still in its
\* owned-segment map, so the next shutdown() will release it.
C13_InitIdempotent ==
    (last.op = "init" /\ last.obj \in ShmStores /\ last.err = NoError)
    => \A n \in Linked :
         (segs[n].by = last.obj /\ segs[n].live) => n \in Owned(last.obj)

\* C14: Padding safety.  Every descriptor (name, length) of a key put_model returned
\* has the byte length of the buffer it was made for, which is at most the size the
\* OS gave the named segment; the view get_model builds for the descriptor has exactly
\* that length and is the segment's bytes [0, length), none of the padding.
C14_PaddingSafety ==
    /\ \A k \in 1..Len(keys) :
         LET key == keys[k]
             m == ModelOf(key)
         IN  \A i \in 1..Len(key.buffers) :
               /\ i <= Len(m.bufs)
               /\ key.buffers[i][2] = Len(m.bufs[i])
               /\ key.buffers[i][2] <= segs[key.buffers[i][1]].size
               /\ Len(segs[key.buffers[i][1]].data) = segs[key.buffers[i][1]].size
    /\ (last.op = "get_model" /\ last.obj \in Clients /\ last.err = NoError /\ last.n > 0)
       => LET key == KeyOf(last) IN
            \A i \in 1..Len(key.buffers) :
              /\ i <= Len(last.ret.bufs)
              /\ Len(last.ret.bufs[i]) = key.buffers[i][2]
              /\ \A b \in 1..key.buffers[i][2] :
                   last.ret.bufs[i][b] = segs[key.buffers[i][1]].data[b]

\* C14's case: a view was built on a segment that is larger than its buffer
C14_Witness ==
    /\ last.op = "get_model" /\ last.obj \in Clients /\ last.err = NoError /\ last.n > 0
    /\ \E i \in 1..Len(KeyOf(last).buffers) :
         KeyOf(last).buffers[i][2] < segs[KeyOf(last).buffers[i][1]].size

\* C15: get_root_seed() returns the root seed.  After init_rng(seed) has set the root
\* seed (and seeded numpy.random from it), get_root_seed() returns normally, and what
\* it returns is the root seed.
C15_RootSeed ==
    (last.op = "get_root_seed" /\ np_seed # None)
    => (last.err = NoError /\ last.ret = _seed)

\* C16: put_model is Share-mode only while encoding.  Every put_model call on a
\* shared-memory store encodes the model in mode 'share', and when it returns or raises
\* the mode is the one in force before the call, and the open sharing_mode() scopes
\* are the same.
C16_ShareWhileEncoding ==
    [][ (last'.op = "put_model" /\ last'.obj \in ShmStores)
        => (last'.flag /\ mode' = mode /\ scopes' = scopes) ]_vars

\* C16's case: outside any sharing_mode() scope a put_model raised after a buffer was
\* externalised, and the mode is 'save' again
C16_Witness ==
    /\ last.op = "put_model" /\ last.obj \in ShmStores
    /\ last.err = "PicklingError" /\ last.n >= 1 /\ last.flag
    /\ scopes = <<>> /\ mode = "save"

\* C17: Client cache consistency.  Every client's cache is empty, or it is one
\* consistent entry: the key, the model decoded from that key, and handles to exactly
\* that key's segments, in order; and a get_model that returns normally returns the
\* model of the key it was given.
C17_CacheConsistent ==
    /\ \A c \in Clients :
         \/ last_key[c] = None /\ last_model[c] = None /\ last_bufs[c] = None
         \/ /\ last_key[c] \in IssuedKeys
            /\ last_model[c] = ModelOf(last_key[c])
            /\ last_bufs[c] = [i \in 1..Len(last_key[c].buffers) |-> last_key[c].buffers[i][1]]
    /\ (last.op = "get_model" /\ last.obj \in Clients /\ last.err = NoError)
       => last.ret = ModelOf(KeyOf(last))

\* the number of times a store is on the activation stack
Occurrences(s, stk) == Cardinality({i \in 1..Len(stk) : stk[i] = s})

\* C18: Activation accounting.  In every reachable state, whatever enter and exit calls
\* were made and however they ended, each store's activation count is at least 0 and
\* is the number of times the store is on the activation stack.
C18_ActivationAccounting ==
    \A s \in Stores :
      /\ act_count[s] >= 0
      /\ act_count[s] = Occurrences(s, active)

\* C19: A rejected exit has no side effect.  When exit is called on a store that is on
\* the activation stack but not on top and the assertion fails, the store's shutdown
\* was not called, its activation count is still the number of times it is on the
\* stack, and it still has its owned-segment map.
C19_RejectedExit ==
    (last.op = "exit" /\ last.err = "AssertionError" /\ last.obj \in Range(active))
    => /\ ~last.flag
       /\ act_count[last.obj] = Occurrences(last.obj, active)
       /\ last.obj \in ShmStores => HasBuffers(last.obj)

\* C20: No unowned segments.  After a put_model call on a shared-memory store whose
\* activation count is 0, and whose encoding did not fail, every linked segment the
\* store's put_model calls created is in the store's owned-segment map.
C20_NoUnownedSegments ==
    (last.op = "put_model" /\ last.obj \in ShmStores /\ act_count[last.obj] = 0
       /\ last.err \notin {"PicklingError", "OSError"})
    => \A n \in Linked : segs[n].by = last.obj => n \in Owned(last.obj)

====
